---- MODULE Spec2Model ----
(***************************************************************************)
(* Model of the AdvancedChart component (frontend/components/              *)
(* ChatMessage.tsx, lines 606-1328): the render effect that clears the svg *)
(* element and dispatches on the chart type, and the four pure-SVG layout  *)
(* functions renderTreemap / renderHeatmap / renderSankey / renderSunburst *)
(* with their helpers squarify, describeArc and formatValue.               *)
(*                                                                         *)
(* JavaScript numbers are modelled as exact extended rationals: a number   *)
(* is a record [n, d] with d > 0 and gcd(n, d) = 1 for a finite value n/d, *)
(* and d = 0 for the three non-finite values NaN (0/0), +Infinity (1/0)    *)
(* and -Infinity (-1/0).  The operators follow IEEE-754 on these (x/0,     *)
(* Inf-Inf, 0*Inf, comparisons with NaN); rounding of doubles and the sign *)
(* of zero are not modelled.  Angles are kept in units of Math.PI.         *)
(***************************************************************************)
EXTENDS Integers, Sequences, FiniteSets, TLC

\* ------------------------------------------------------------------------
\* Bounds of the model
\* ------------------------------------------------------------------------
MaxItems == 3
MaxValue == 3
MaxCells == 2
MaxEdges == 2
MaxLegendItems == 5
MaxFormatSteps == 60

\* ------------------------------------------------------------------------
\* JavaScript numbers
\* ------------------------------------------------------------------------
NaN == [n |-> 0, d |-> 0]
PosInf == [n |-> 1, d |-> 0]
NegInf == [n |-> -1, d |-> 0]

Abs(i) == IF i < 0 THEN -i ELSE i

RECURSIVE GCD(_, _)
GCD(a, b) == IF b = 0 THEN a ELSE GCD(b, a % b)

\* the finite number n/d (d # 0) in lowest terms with a positive denominator
Norm(n, d) ==
  LET g == GCD(Abs(n), Abs(d))
      s == IF d < 0 THEN -1 ELSE 1
  IN [n |-> (s * n) \div g, d |-> (s * d) \div g]

Num(i) == [n |-> i, d |-> 1]
Frac(n, d) == Norm(n, d)

IsNaN(a) == a.d = 0 /\ a.n = 0
IsFinite(a) == a.d # 0
Sign(a) == IF a.n > 0 THEN 1 ELSE IF a.n < 0 THEN -1 ELSE 0
Inf(s) == [n |-> s, d |-> 0]

Neg(a) == [n |-> -a.n, d |-> a.d]

Add(a, b) ==
  IF IsNaN(a) \/ IsNaN(b) THEN NaN
  ELSE IF a.d = 0 /\ b.d = 0 THEN (IF a.n = b.n THEN a ELSE NaN)
  ELSE IF a.d = 0 THEN a
  ELSE IF b.d = 0 THEN b
  ELSE Norm(a.n * b.d + b.n * a.d, a.d * b.d)

Sub(a, b) == Add(a, Neg(b))

Mul(a, b) ==
  IF IsNaN(a) \/ IsNaN(b) THEN NaN
  ELSE IF a.d = 0 \/ b.d = 0
       THEN (IF Sign(a) * Sign(b) = 0 THEN NaN ELSE Inf(Sign(a) * Sign(b)))
  ELSE Norm(a.n * b.n, a.d * b.d)

\* a / b; every zero divisor of the component is a +0 (a sum or a difference)
Div(a, b) ==
  IF IsNaN(a) \/ IsNaN(b) THEN NaN
  ELSE IF a.d = 0 /\ b.d = 0 THEN NaN
  ELSE IF b.d = 0 THEN Num(0)
  ELSE IF a.d = 0 THEN Inf(Sign(a) * (IF b.n < 0 THEN -1 ELSE 1))
  ELSE IF b.n = 0 THEN (IF a.n = 0 THEN NaN ELSE Inf(Sign(a)))
  ELSE Norm(a.n * b.d, a.d * b.n)

\* a > b, false when either side is NaN
Gt(a, b) ==
  IF IsNaN(a) \/ IsNaN(b) THEN FALSE
  ELSE IF a.d = 0 /\ b.d = 0 THEN a.n > b.n
  ELSE a.n * b.d > b.n * a.d

Lt(a, b) == Gt(b, a)
Ge(a, b) == ~IsNaN(a) /\ ~IsNaN(b) /\ ~Gt(b, a)
Le(a, b) == Ge(b, a)

\* Math.max(a, b) and Math.min(a, b): NaN when either argument is NaN
MathMax(a, b) == IF IsNaN(a) \/ IsNaN(b) THEN NaN ELSE IF Gt(b, a) THEN b ELSE a
MathMin(a, b) == IF IsNaN(a) \/ IsNaN(b) THEN NaN ELSE IF Gt(a, b) THEN b ELSE a

RECURSIVE MathMaxAll(_)
MathMaxAll(vs) ==
  IF vs = <<>> THEN NegInf ELSE MathMax(Head(vs), MathMaxAll(Tail(vs)))

RECURSIVE MathMinAll(_)
MathMinAll(vs) ==
  IF vs = <<>> THEN PosInf ELSE MathMin(Head(vs), MathMinAll(Tail(vs)))

\* a || b on numbers: 0 and NaN are falsy
OrElse(a, b) == IF IsNaN(a) \/ (a.d # 0 /\ a.n = 0) THEN b ELSE a

\* Math.floor
Floor(a) == IF a.d = 0 THEN a ELSE Num(a.n \div a.d)

\* ------------------------------------------------------------------------
\* Strings (sequences of characters) and number formatting
\* ------------------------------------------------------------------------
Digits == <<"0", "1", "2", "3", "4", "5", "6", "7", "8", "9">>

RECURSIVE NatToStr(_)
NatToStr(k) ==
  IF k < 10 THEN <<Digits[k + 1]>>
  ELSE NatToStr(k \div 10) \o <<Digits[(k % 10) + 1]>>

\* Number.prototype.toString of a non-finite number
NonFiniteToStr(a) ==
  IF IsNaN(a) THEN <<"N", "a", "N">>
  ELSE IF a.n > 0 THEN <<"I", "n", "f", "i", "n", "i", "t", "y">>
  ELSE <<"-", "I", "n", "f", "i", "n", "i", "t", "y">>

RECURSIVE IsPowerOfTwo(_)
IsPowerOfTwo(q) == q = 1 \/ (q % 2 = 0 /\ IsPowerOfTwo(q \div 2))

RECURSIVE BinaryExponent(_, _)
\* the e with 2^e <= p / q < 2^(e+1), for p, q > 0
BinaryExponent(p, q) ==
  IF p < q THEN BinaryExponent(2 * p, q) - 1
  ELSE IF p >= 2 * q THEN BinaryExponent(p, 2 * q) + 1
  ELSE 0

RECURSIVE PowerOfTwoMod(_, _)
\* 2^e modulo q, for e >= 0
PowerOfTwoMod(e, q) == IF e = 0 THEN 1 % q ELSE (2 * PowerOfTwoMod(e - 1, q)) % q

\* Numbers are IEEE doubles with a 53-bit significand: the double nearest to
\* p / q (p, q > 0 in lowest terms) lies above p / q
DoubleIsAbove(p, q) ==
  LET e == 52 - BinaryExponent(p, q)
      r == ((p % q) * PowerOfTwoMod(e, q)) % q
  IN 2 * r > q

\* Number.prototype.toFixed(f) for f in {0, 1}: the multiple n / 10^f nearest
\* to the double x, the larger n when two are equally near. When the quotient
\* p / q lies midway between two multiples, x is p / q itself if that is a
\* double (q a power of two) and otherwise the nearest double, above or
\* below the midpoint
ToFixed(a, f) ==
  IF a.d = 0 THEN NonFiniteToStr(a)
  ELSE LET scale == IF f = 1 THEN 10 ELSE 1
           an == Abs(a.n)
           midway == (2 * an * scale) % (2 * a.d) = a.d
           roundsDown == midway /\ ~IsPowerOfTwo(a.d) /\ ~DoubleIsAbove(an, a.d)
           k == IF roundsDown THEN (an * scale) \div a.d
                ELSE (2 * an * scale + a.d) \div (2 * a.d)
           sgn == IF a.n < 0 THEN <<"-">> ELSE <<>>
       IN IF f = 1
          THEN sgn \o NatToStr(k \div 10) \o <<".">> \o <<Digits[(k % 10) + 1]>>
          ELSE sgn \o NatToStr(k)

\* the thresholds compared with > instead of >=
formatValueAbove(value) ==
  IF Gt(value, Num(1000000)) THEN ToFixed(Div(value, Num(1000000)), 1) \o <<"M">>
  ELSE IF Gt(value, Num(1000)) THEN ToFixed(Div(value, Num(1000)), 1) \o <<"K">>
  ELSE ToFixed(value, 0)

formatValue(value) ==
  IF Ge(value, Num(1000000)) THEN ToFixed(Div(value, Num(1000000)), 1) \o <<"M">>
  ELSE IF Ge(value, Num(1000)) THEN ToFixed(Div(value, Num(1000)), 1) \o <<"K">>
  ELSE ToFixed(value, 0)

\* name.length > limit ? name.slice(0, keep) + '...' : name
Ellipsize(name, limit, keep) ==
  IF Len(name) > limit THEN SubSeq(name, 1, keep) \o <<".", ".", ".">> ELSE name

\* ------------------------------------------------------------------------
\* Chart data
\* ------------------------------------------------------------------------
\* an absent (undefined) or empty optional string field
None == <<>>

\* the value of a missing name: undefined, which has no length
Undefined == <<"undefined">>

\* String(undefined)
UndefinedToStr == <<"u", "n", "d", "e", "f", "i", "n", "e", "d">>

\* the TypeError raised by reading .length of undefined: it stands in a list
\* of appended elements at the point where the function is abandoned
TypeError == [tag |-> "TypeError"]

\* name.length > limit ? name.slice(0, keep) + '...' : name, as the content
\* of a text element that is appended next
LabelText(element, name, limit, keep) ==
  IF name = Undefined THEN TypeError
  ELSE [element EXCEPT !.text = Ellipsize(name, limit, keep)]

Raises(children) == \E i \in DOMAIN children : children[i] = TypeError

\* the elements appended before the exception, all of them when there is none
RECURSIVE UntilRaise(_)
UntilRaise(children) ==
  IF children = <<>> \/ Head(children) = TypeError THEN <<>>
  ELSE <<Head(children)>> \o UntilRaise(Tail(children))

ChartDataItem(name, value, category, source, target, row, col) ==
  [name |-> name, value |-> value, category |-> category,
   source |-> source, target |-> target, row |-> row, col |-> col]

\* COLOR_SCHEMES.default has 8 entries; a fill is an index into the palette,
\* -1 standing for colors[i] === undefined
PaletteSize == 8

ColorAt(idx) ==
  IF idx.d = 1 /\ idx.n >= 0 /\ idx.n < PaletteSize THEN idx.n ELSE -1

RECURSIVE SumValues(_)
\* data.reduce((sum, d) => sum + d.value, 0)
SumValues(data) ==
  IF data = <<>> THEN Num(0)
  ELSE Add(SumValues(SubSeq(data, 1, Len(data) - 1)), data[Len(data)].value)

\* ------------------------------------------------------------------------
\* squarify
\* ------------------------------------------------------------------------
\* the sign of the comparator (a, b) => b.value - a.value, a NaN result
\* counting as 0
CompareDesc(a, b) ==
  LET diff == Sub(b.value, a.value) IN IF IsNaN(diff) THEN 0 ELSE Sign(diff)

\* the comparator orders the elements of data consistently
ConsistentComparator(data) ==
  \A i, j, k \in DOMAIN data :
    /\ (CompareDesc(data[i], data[j]) = 0 /\ CompareDesc(data[j], data[k]) = 0)
         => CompareDesc(data[i], data[k]) = 0
    /\ (CompareDesc(data[i], data[j]) < 0 /\ CompareDesc(data[j], data[k]) <= 0)
         => CompareDesc(data[i], data[k]) < 0
    /\ (CompareDesc(data[i], data[j]) <= 0 /\ CompareDesc(data[j], data[k]) < 0)
         => CompareDesc(data[i], data[k]) < 0

\* insert item behind every element that does not sort after it (stable)
RECURSIVE InsertDesc(_, _)
InsertDesc(sorted, item) ==
  IF sorted = <<>> THEN <<item>>
  ELSE IF CompareDesc(Head(sorted), item) > 0 THEN <<item>> \o sorted
  ELSE <<Head(sorted)>> \o InsertDesc(Tail(sorted), item)

RECURSIVE StableSortDesc(_)
StableSortDesc(data) ==
  IF data = <<>> THEN <<>>
  ELSE InsertDesc(StableSortDesc(SubSeq(data, 1, Len(data) - 1)), data[Len(data)])

Reorderings(data) ==
  { [i \in DOMAIN data |-> data[p[i]]] :
      p \in { q \in [DOMAIN data -> DOMAIN data] :
                \A i, j \in DOMAIN data : q[i] = q[j] => i = j } }

\* [...data].sort((a, b) => b.value - a.value): the stable descending order;
\* with an inconsistent comparator (NaN values) the order is
\* implementation-defined, so every permutation is a possible outcome
SortedByValue(data) ==
  IF ConsistentComparator(data) THEN {StableSortDesc(data)} ELSE Reorderings(data)

\* PlaceItem with the ratio taken against a remaining value that the caller
\* never sees shrink: the item is sized against the total of all items
PlaceItemAgainstTotal(st, item) ==
  LET areaRatio == Div(item.value, Add(st.remainingValue, SumValues([i \in DOMAIN st.result |-> st.result[i].item])))
  IN IF Gt(st.remainingWidth, st.remainingHeight)
     THEN LET itemWidth == Mul(st.remainingWidth, areaRatio)
          IN [x |-> Add(st.x, itemWidth), y |-> st.y,
              remainingWidth |-> Sub(st.remainingWidth, itemWidth),
              remainingHeight |-> st.remainingHeight,
              remainingValue |-> Sub(st.remainingValue, item.value),
              result |-> Append(st.result,
                          [item |-> item, x |-> st.x, y |-> st.y,
                           width |-> itemWidth, height |-> st.remainingHeight])]
     ELSE LET itemHeight == Mul(st.remainingHeight, areaRatio)
          IN [x |-> st.x, y |-> Add(st.y, itemHeight),
              remainingWidth |-> st.remainingWidth,
              remainingHeight |-> Sub(st.remainingHeight, itemHeight),
              remainingValue |-> Sub(st.remainingValue, item.value),
              result |-> Append(st.result,
                          [item |-> item, x |-> st.x, y |-> st.y,
                           width |-> st.remainingWidth, height |-> itemHeight])]

\* PlaceItem with the test remainingWidth >= remainingHeight: a square
\* remainder is cut by width
PlaceItemTieToColumn(st, item) ==
  LET areaRatio == Div(item.value, st.remainingValue)
  IN IF Ge(st.remainingWidth, st.remainingHeight)
     THEN LET itemWidth == Mul(st.remainingWidth, areaRatio)
          IN [x |-> Add(st.x, itemWidth), y |-> st.y,
              remainingWidth |-> Sub(st.remainingWidth, itemWidth),
              remainingHeight |-> st.remainingHeight,
              remainingValue |-> Sub(st.remainingValue, item.value),
              result |-> Append(st.result,
                          [item |-> item, x |-> st.x, y |-> st.y,
                           width |-> itemWidth, height |-> st.remainingHeight])]
     ELSE LET itemHeight == Mul(st.remainingHeight, areaRatio)
          IN [x |-> st.x, y |-> Add(st.y, itemHeight),
              remainingWidth |-> st.remainingWidth,
              remainingHeight |-> Sub(st.remainingHeight, itemHeight),
              remainingValue |-> Sub(st.remainingValue, item.value),
              result |-> Append(st.result,
                          [item |-> item, x |-> st.x, y |-> st.y,
                           width |-> st.remainingWidth, height |-> itemHeight])]

\* the body of sorted.forEach: place one item and shrink the remainder
PlaceItem(st, item) ==
  LET areaRatio == Div(item.value, st.remainingValue)
  IN IF Gt(st.remainingWidth, st.remainingHeight)
     THEN LET itemWidth == Mul(st.remainingWidth, areaRatio)
              itemHeight == st.remainingHeight
          IN [x |-> Add(st.x, itemWidth), y |-> st.y,
              remainingWidth |-> Sub(st.remainingWidth, itemWidth),
              remainingHeight |-> st.remainingHeight,
              remainingValue |-> Sub(st.remainingValue, item.value),
              result |-> Append(st.result,
                          [item |-> item, x |-> st.x, y |-> st.y,
                           width |-> itemWidth, height |-> itemHeight])]
     ELSE LET itemWidth == st.remainingWidth
              itemHeight == Mul(st.remainingHeight, areaRatio)
          IN [x |-> st.x, y |-> Add(st.y, itemHeight),
              remainingWidth |-> st.remainingWidth,
              remainingHeight |-> Sub(st.remainingHeight, itemHeight),
              remainingValue |-> Sub(st.remainingValue, item.value),
              result |-> Append(st.result,
                          [item |-> item, x |-> st.x, y |-> st.y,
                           width |-> itemWidth, height |-> itemHeight])]

RECURSIVE PlaceAll(_, _)
PlaceAll(st, sorted) ==
  IF sorted = <<>> THEN st ELSE PlaceAll(PlaceItem(st, Head(sorted)), Tail(sorted))

\* squarify on an already sorted copy of data
SquarifySorted(sorted, width, height, totalValue) ==
  PlaceAll([x |-> Num(0), y |-> Num(0),
            remainingWidth |-> width, remainingHeight |-> height,
            remainingValue |-> totalValue, result |-> <<>>], sorted).result

\* the possible results of squarify(data, width, height, totalValue)
squarify(data, width, height, totalValue) ==
  { SquarifySorted(sorted, width, height, totalValue) : sorted \in SortedByValue(data) }

\* ------------------------------------------------------------------------
\* renderTreemap
\* ------------------------------------------------------------------------
TreemapMargin == 10

\* a cell labelled from 60 x 30 on
TreemapCellAtLeast(rect, i) ==
  <<[tag |-> "rect", x |-> rect.x, y |-> rect.y,
     width |-> MathMax(Num(0), Sub(rect.width, Num(2))),
     height |-> MathMax(Num(0), Sub(rect.height, Num(2))),
     fill |-> (i - 1) % PaletteSize]>>
  \o (IF Ge(rect.width, Num(60)) /\ Ge(rect.height, Num(30))
      THEN <<[tag |-> "text", x |-> Add(rect.x, Div(rect.width, Num(2))),
              y |-> Add(rect.y, Div(rect.height, Num(2))),
              text |-> Ellipsize(rect.item.name, 15, 12)],
             [tag |-> "text", x |-> Add(rect.x, Div(rect.width, Num(2))),
              y |-> Add(Add(rect.y, Div(rect.height, Num(2))), Num(14)),
              text |-> formatValue(rect.item.value)]>>
      ELSE <<>>)

\* a cell drawn as large as its rectangle, without label
TreemapCellNoGutter(rect, i) ==
  <<[tag |-> "rect", x |-> rect.x, y |-> rect.y,
     width |-> rect.width, height |-> rect.height, fill |-> (i - 1) % PaletteSize]>>

\* the elements appended to the group for one placed rectangle
TreemapCell(rect, i) ==
  <<[tag |-> "rect", x |-> rect.x, y |-> rect.y,
     width |-> MathMax(Num(0), Sub(rect.width, Num(2))),
     height |-> MathMax(Num(0), Sub(rect.height, Num(2))),
     fill |-> (i - 1) % PaletteSize]>>
  \o (IF Gt(rect.width, Num(60)) /\ Gt(rect.height, Num(30))
      THEN <<LabelText([tag |-> "text", x |-> Add(rect.x, Div(rect.width, Num(2))),
                        y |-> Add(rect.y, Div(rect.height, Num(2))),
                        text |-> None],
                       rect.item.name, 15, 12),
             [tag |-> "text", x |-> Add(rect.x, Div(rect.width, Num(2))),
              y |-> Add(Add(rect.y, Div(rect.height, Num(2))), Num(14)),
              text |-> formatValue(rect.item.value)]>>
      ELSE <<>>)

RECURSIVE TreemapCells(_, _)
TreemapCells(rects, i) ==
  IF i > Len(rects) THEN <<>>
  ELSE TreemapCell(rects[i], i) \o TreemapCells(rects, i + 1)

Group(tx, ty, children) ==
  [tag |-> "g", tx |-> tx, ty |-> ty, children |-> children]

\* the possible groups renderTreemap appends to the svg element
renderTreemap(data, width, height) ==
  LET innerWidth == Sub(Sub(width, Num(TreemapMargin)), Num(TreemapMargin))
      innerHeight == Sub(Sub(height, Num(TreemapMargin)), Num(TreemapMargin))
      totalValue == SumValues(data)
  IN { Group(Num(TreemapMargin), Num(TreemapMargin), TreemapCells(rects, 1)) :
         rects \in squarify(data, innerWidth, innerHeight, totalValue) }

\* ------------------------------------------------------------------------
\* renderHeatmap
\* ------------------------------------------------------------------------
HeatmapMarginLeft == 60
HeatmapMarginOther == 30

\* every item in the one row 'Row'
RowKeyDefault(d) == <<"R", "o", "w">>

\* row?: string | number and col?: string | number: a key that is the
\* number n is "number" followed by the characters of String(n)
NumberKey(n) == <<"number">> \o NatToStr(n)

\* !key: the key is absent, the empty string or the number 0
Falsy(key) == key = None \/ key = NumberKey(0)

\* String(key)
KeyToStr(key) ==
  IF key # <<>> /\ key[1] = "number" THEN Tail(key) ELSE key

\* a row key that falls back only when row is absent or empty
RowKeyUnlessZero(d) ==
  IF d.row # None THEN KeyToStr(d.row)
  ELSE IF d.category # None THEN d.category ELSE <<"R", "o", "w">>

\* String(d.row || d.category || 'Row') and String(d.col || d.name)
RowKey(d) ==
  IF ~Falsy(d.row) THEN KeyToStr(d.row)
  ELSE IF d.category # None THEN d.category ELSE <<"R", "o", "w">>

ColKey(d) ==
  IF ~Falsy(d.col) THEN KeyToStr(d.col)
  ELSE IF d.name = Undefined THEN UndefinedToStr ELSE d.name

\* [...new Set(keys)]: the distinct keys in first-seen order
RECURSIVE Distinct(_)
Distinct(keys) ==
  IF keys = <<>> THEN <<>>
  ELSE LET front == Distinct(SubSeq(keys, 1, Len(keys) - 1))
           last == keys[Len(keys)]
       IN IF \E i \in DOMAIN front : front[i] = last THEN front
          ELSE Append(front, last)

\* keys.indexOf(key), counted from 0; -1 when absent
IndexOf(keys, key) ==
  IF \E i \in DOMAIN keys : keys[i] = key
  THEN (CHOOSE i \in DOMAIN keys :
          keys[i] = key /\ \A j \in DOMAIN keys : keys[j] = key => i <= j) - 1
  ELSE -1

Values(data) == [i \in DOMAIN data |-> data[i].value]

\* (item.value - minValue) / (maxValue - minValue || 1)
NormalizedValue(data, item) ==
  LET minValue == MathMinAll(Values(data))
      maxValue == MathMaxAll(Values(data))
  IN Div(Sub(item.value, minValue), OrElse(Sub(maxValue, minValue), Num(1)))

\* an index scaled by the length of the palette
ColorIndexByLength(normalizedValue, length) ==
  Floor(Mul(normalizedValue, Num(length)))

\* Math.floor(normalizedValue * (colors.length - 1))
ColorIndex(normalizedValue, length) ==
  Floor(Mul(normalizedValue, Num(length - 1)))

\* a cell placed by its column index on both axes
HeatmapCellOnDiagonal(data, item, rows, cols, cellWidth, cellHeight) ==
  LET colIdx == IndexOf(cols, ColKey(item))
  IN <<[tag |-> "rect", x |-> Mul(Num(colIdx), cellWidth),
        y |-> Mul(Num(colIdx), cellHeight),
        width |-> Sub(cellWidth, Num(2)), height |-> Sub(cellHeight, Num(2)),
        fill |-> 0]>>

\* the elements appended for one item of the heatmap
HeatmapCell(data, item, rows, cols, cellWidth, cellHeight) ==
  LET rowIdx == IndexOf(rows, RowKey(item))
      colIdx == IndexOf(cols, ColKey(item))
      x == Mul(Num(colIdx), cellWidth)
      y == Mul(Num(rowIdx), cellHeight)
      normalizedValue == NormalizedValue(data, item)
      colorIdx == ColorIndex(normalizedValue, PaletteSize)
  IN IF rowIdx = -1 \/ colIdx = -1 THEN <<>>
     ELSE <<[tag |-> "rect", x |-> x, y |-> y,
             width |-> Sub(cellWidth, Num(2)), height |-> Sub(cellHeight, Num(2)),
             fill |-> ColorAt(colorIdx)]>>
          \o (IF Gt(cellWidth, Num(30)) /\ Gt(cellHeight, Num(20))
              THEN <<[tag |-> "text", x |-> Add(x, Div(cellWidth, Num(2))),
                      y |-> Add(y, Div(cellHeight, Num(2))),
                      ink |-> IF Gt(normalizedValue, Frac(1, 2)) THEN "white" ELSE "black",
                      text |-> formatValue(item.value)]>>
              ELSE <<>>)

RECURSIVE HeatmapCells(_, _, _, _, _, _)
HeatmapCells(data, i, rows, cols, cellWidth, cellHeight) ==
  IF i > Len(data) THEN <<>>
  ELSE HeatmapCell(data, data[i], rows, cols, cellWidth, cellHeight)
       \o HeatmapCells(data, i + 1, rows, cols, cellWidth, cellHeight)

RowLabels(rows, cellHeight) ==
  [i \in DOMAIN rows |->
     [tag |-> "text", x |-> Num(-5),
      y |-> Add(Mul(Num(i - 1), cellHeight), Div(cellHeight, Num(2))),
      text |-> Ellipsize(rows[i], 10, 8)]]

ColLabels(cols, cellWidth) ==
  [i \in DOMAIN cols |->
     [tag |-> "text", x |-> Add(Mul(Num(i - 1), cellWidth), Div(cellWidth, Num(2))),
      y |-> Num(-10), text |-> Ellipsize(cols[i], 10, 8)]]

renderHeatmap(data, width, height) ==
  LET innerWidth == Sub(Sub(width, Num(HeatmapMarginLeft)), Num(HeatmapMarginOther))
      innerHeight == Sub(Sub(height, Num(HeatmapMarginOther)), Num(HeatmapMarginOther))
      rows == Distinct([i \in DOMAIN data |-> RowKey(data[i])])
      cols == Distinct([i \in DOMAIN data |-> ColKey(data[i])])
      cellWidth == Div(innerWidth, Num(Len(cols)))
      cellHeight == Div(innerHeight, Num(Len(rows)))
  IN Group(Num(HeatmapMarginLeft), Num(HeatmapMarginOther),
           HeatmapCells(data, 1, rows, cols, cellWidth, cellHeight)
           \o RowLabels(rows, cellHeight) \o ColLabels(cols, cellWidth))

\* ------------------------------------------------------------------------
\* renderSankey
\* ------------------------------------------------------------------------
SankeyMargin == 20
NodeWidth == 20
NodeGap == 5

\* the keys of field f ("source" or "target") that are truthy, in data order
RECURSIVE TruthyKeys(_, _)
TruthyKeys(data, f) ==
  IF data = <<>> THEN <<>>
  ELSE LET front == TruthyKeys(SubSeq(data, 1, Len(data) - 1), f)
           key == data[Len(data)][f]
       IN IF key # None THEN Append(front, key) ELSE front

\* Array.from(sources) / Array.from(targets)
NodesOf(data, f) == Distinct(TruthyKeys(data, f))

\* node values that count only the items drawn as a curve
RECURSIVE NodeValueOfDrawn(_, _, _)
NodeValueOfDrawn(data, f, node) ==
  IF data = <<>> THEN Num(0)
  ELSE LET acc == NodeValueOfDrawn(SubSeq(data, 1, Len(data) - 1), f, node)
           d == data[Len(data)]
       IN IF d[f] = node /\ d.source # None /\ d.target # None
          THEN Add(OrElse(acc, Num(0)), d.value) ELSE acc

\* sourceValues[node] / targetValues[node] after the accumulating forEach:
\* acc = (acc || 0) + d.value for every item whose field f names the node
RECURSIVE NodeValue(_, _, _)
NodeValue(data, f, node) ==
  IF data = <<>> THEN Num(0)
  ELSE LET acc == NodeValue(SubSeq(data, 1, Len(data) - 1), f, node)
           d == data[Len(data)]
       IN IF d[f] = node THEN Add(OrElse(acc, Num(0)), d.value) ELSE acc

\* Object.values(sourceValues).reduce((a, b) => a + b, 0)
RECURSIVE TotalNodeValue(_, _, _)
TotalNodeValue(data, f, nodes) ==
  IF nodes = <<>> THEN Num(0)
  ELSE Add(TotalNodeValue(data, f, SubSeq(nodes, 1, Len(nodes) - 1)),
           NodeValue(data, f, nodes[Len(nodes)]))

NodeHeight(data, f, node, innerHeight) ==
  Mul(Div(NodeValue(data, f, node), TotalNodeValue(data, f, NodesOf(data, f))),
      innerHeight)

\* sourceY / targetY before the k-th node of the column is placed
RECURSIVE NodeY(_, _, _, _)
NodeY(data, f, k, innerHeight) ==
  IF k = 1 THEN Num(0)
  ELSE Add(Add(NodeY(data, f, k - 1, innerHeight),
               NodeHeight(data, f, NodesOf(data, f)[k - 1], innerHeight)),
           Num(NodeGap))

\* sourcePositions[node] / targetPositions[node]
NodePosition(data, f, node, innerHeight) ==
  [y |-> NodeY(data, f, IndexOf(NodesOf(data, f), node) + 1, innerHeight),
   height |-> NodeHeight(data, f, node, innerHeight)]

\* linkHeight of one drawn edge
LinkHeight(data, d, innerHeight) ==
  Mul(Div(d.value, NodeValue(data, "source", d.source)),
      NodePosition(data, "source", d.source, innerHeight).height)

\* a path as thick as its slice is high, however thin
SankeyLinkUnclamped(data, i, innerWidth, innerHeight) ==
  LET d == data[i]
  IN IF d.source = None \/ d.target = None THEN <<>>
     ELSE LET sourcePos == NodePosition(data, "source", d.source, innerHeight)
              targetPos == NodePosition(data, "target", d.target, innerHeight)
              linkHeight == LinkHeight(data, d, innerHeight)
              targetX == Sub(innerWidth, Num(NodeWidth))
          IN <<[tag |-> "path",
                d |-> <<Num(NodeWidth), Add(sourcePos.y, Div(linkHeight, Num(2))),
                        Div(innerWidth, Num(2)), Add(sourcePos.y, Div(linkHeight, Num(2))),
                        Div(innerWidth, Num(2)), Add(targetPos.y, Div(linkHeight, Num(2))),
                        targetX, Add(targetPos.y, Div(linkHeight, Num(2)))>>,
                stroke |-> (i - 1) % PaletteSize,
                strokeWidth |-> linkHeight]>>

\* a path for every item that has a source, whether it has a target or not
SankeyLinkFromSource(data, i, innerWidth, innerHeight) ==
  IF data[i].source = None THEN <<>>
  ELSE <<[tag |-> "path", d |-> <<>>, stroke |-> (i - 1) % PaletteSize,
          strokeWidth |-> Num(1)]>>

\* the path appended for item i, if any
SankeyLink(data, i, innerWidth, innerHeight) ==
  LET d == data[i]
  IN IF d.source = None \/ d.target = None THEN <<>>
     ELSE LET sourcePos == NodePosition(data, "source", d.source, innerHeight)
              targetPos == NodePosition(data, "target", d.target, innerHeight)
              linkHeight == LinkHeight(data, d, innerHeight)
              targetX == Sub(innerWidth, Num(NodeWidth))
          IN <<[tag |-> "path",
                d |-> <<Num(NodeWidth), Add(sourcePos.y, Div(linkHeight, Num(2))),
                        Div(innerWidth, Num(2)), Add(sourcePos.y, Div(linkHeight, Num(2))),
                        Div(innerWidth, Num(2)), Add(targetPos.y, Div(linkHeight, Num(2))),
                        targetX, Add(targetPos.y, Div(linkHeight, Num(2)))>>,
                stroke |-> (i - 1) % PaletteSize,
                strokeWidth |-> MathMax(Num(1), linkHeight)]>>

RECURSIVE SankeyLinks(_, _, _, _)
SankeyLinks(data, i, innerWidth, innerHeight) ==
  IF i > Len(data) THEN <<>>
  ELSE SankeyLink(data, i, innerWidth, innerHeight)
       \o SankeyLinks(data, i + 1, innerWidth, innerHeight)

\* the rect and the label of node i of a column
SankeyNode(data, f, i, x, textX, fillOffset, innerHeight) ==
  LET node == NodesOf(data, f)[i]
      pos == NodePosition(data, f, node, innerHeight)
  IN <<[tag |-> "rect", x |-> x, y |-> pos.y, width |-> Num(NodeWidth),
        height |-> pos.height, fill |-> (fillOffset + i - 1) % PaletteSize],
       [tag |-> "text", x |-> textX, y |-> Add(pos.y, Div(pos.height, Num(2))),
        text |-> node]>>

RECURSIVE SankeyNodes(_, _, _, _, _, _, _)
SankeyNodes(data, f, i, x, textX, fillOffset, innerHeight) ==
  IF i > Len(NodesOf(data, f)) THEN <<>>
  ELSE SankeyNode(data, f, i, x, textX, fillOffset, innerHeight)
       \o SankeyNodes(data, f, i + 1, x, textX, fillOffset, innerHeight)

renderSankey(data, width, height) ==
  LET innerWidth == Sub(Sub(width, Num(SankeyMargin)), Num(SankeyMargin))
      innerHeight == Sub(Sub(height, Num(SankeyMargin)), Num(SankeyMargin))
      targetX == Sub(innerWidth, Num(NodeWidth))
  IN Group(Num(SankeyMargin), Num(SankeyMargin),
           SankeyLinks(data, 1, innerWidth, innerHeight)
           \o SankeyNodes(data, "source", 1, Num(0), Num(NodeWidth + 5), 0, innerHeight)
           \o SankeyNodes(data, "target", 1, targetX, Sub(targetX, Num(5)),
                          Len(NodesOf(data, "source")), innerHeight))

\* ------------------------------------------------------------------------
\* renderSunburst; angles are in units of Math.PI
\* ------------------------------------------------------------------------
\* polarToCartesian(0, 0, radius, angle): the point
\* (radius cos(angle - PI/2), radius sin(angle - PI/2)), kept in polar form;
\* its coordinates are finite exactly when radius and angle are
polarToCartesian(radius, angle) == [radius |-> radius, angle |-> angle]

describeArc(innerRadius, outerRadius, startAngle, endAngle) ==
  [startOuter |-> polarToCartesian(outerRadius, endAngle),
   endOuter |-> polarToCartesian(outerRadius, startAngle),
   startInner |-> polarToCartesian(innerRadius, endAngle),
   endInner |-> polarToCartesian(innerRadius, startAngle),
   largeArcFlag |-> IF Le(Sub(endAngle, startAngle), Num(1)) THEN 0 ELSE 1]

\* WedgeAngle with a half turn in place of the full turn
WedgeAngleHalfTurn(data, item) == Mul(Div(item.value, SumValues(data)), Num(1))

\* angle in units of Math.PI: (item.value / totalValue) * 2 * Math.PI
WedgeAngle(data, item) == Mul(Div(item.value, SumValues(data)), Num(2))

\* a currentAngle that is never advanced
CurrentAngleAtStart(data, i) == Num(0)

\* currentAngle before item i is drawn
RECURSIVE CurrentAngle(_, _)
CurrentAngle(data, i) ==
  IF i = 1 THEN Num(0)
  ELSE Add(CurrentAngle(data, i - 1), WedgeAngle(data, data[i - 1]))

\* angle > 0.3 for an angle in units of Math.PI (Math.PI taken as 355/113)
ExceedsLabelAngle(angle) == Gt(Mul(angle, Frac(355, 113)), Frac(3, 10))

SunburstWedge(data, i, radius) ==
  LET item == data[i]
      angle == WedgeAngle(data, item)
      startAngle == CurrentAngle(data, i)
      endAngle == Add(startAngle, angle)
      innerRadius == Mul(radius, Frac(3, 10))
      outerRadius == radius
  IN <<[tag |-> "path",
        d |-> describeArc(innerRadius, outerRadius, startAngle, endAngle),
        fill |-> (i - 1) % PaletteSize]>>
     \o (IF ExceedsLabelAngle(angle)
         THEN <<LabelText([tag |-> "text",
                           at |-> polarToCartesian(
                                    Div(Add(innerRadius, outerRadius), Num(2)),
                                    Add(startAngle, Div(angle, Num(2)))),
                           text |-> None],
                          item.name, 10, 8)>>
         ELSE <<>>)

RECURSIVE SunburstWedges(_, _, _)
SunburstWedges(data, i, radius) ==
  IF i > Len(data) THEN <<>>
  ELSE SunburstWedge(data, i, radius) \o SunburstWedges(data, i + 1, radius)

renderSunburst(data, width, height) ==
  LET centerX == Div(width, Num(2))
      centerY == Div(height, Num(2))
      radius == Sub(Div(MathMin(width, height), Num(2)), Num(40))
  IN Group(centerX, centerY,
           SunburstWedges(data, 1, radius)
           \o <<[tag |-> "circle", r |-> Sub(Mul(radius, Frac(3, 10)), Num(2))],
                [tag |-> "text", x |-> Num(0), y |-> Num(0),
                 text |-> formatValue(SumValues(data))]>>)

\* ------------------------------------------------------------------------
\* The component: props, the svg element and the render effect
\* ------------------------------------------------------------------------
VARIABLES
  type,           \* prop type: the chart type
  data,           \* prop data: the sequence of ChartDataItem
  width, height,  \* props width and height (numbers)
  isRTL,          \* prop isRTL: right-to-left presentation
  svg,            \* the children of the svg element, in document order
  legend,         \* the labels of the legend below the svg element, in order
  thrown,         \* an exception has left the render effect
  effectPending,  \* the render effect is scheduled (its dependencies changed)
  firstRender,    \* history: the props and the svg after the first render effect
  effectRTL       \* history: isRTL when the render effect last ran

vars == <<type, data, width, height, isRTL, svg, legend, thrown, effectPending,
          firstRender, effectRTL>>

ChartTypes == {"sankey", "treemap", "heatmap", "sunburst", "chord"}

\* while (svg.firstChild) svg.removeChild(svg.firstChild)
ClearChildren(children) == <<>>

\* a switch that passes isRTL on: the group is shifted the other way when
\* the presentation is right-to-left
LayoutCallDirected(t, d, w, h) ==
  { [g EXCEPT !.tx = IF isRTL THEN Neg(g.tx) ELSE g.tx] :
      g \in CASE t = "heatmap" -> {renderHeatmap(d, w, h)}
             [] t = "sankey" -> {renderSankey(d, w, h)}
             [] t = "sunburst" -> {renderSunburst(d, w, h)}
             [] OTHER -> renderTreemap(d, w, h) }

\* a switch without default branch: an unlisted type draws an empty group
LayoutCallNoDefault(t, d, w, h) ==
  CASE t = "treemap" -> renderTreemap(d, w, h)
    [] t = "heatmap" -> {renderHeatmap(d, w, h)}
    [] t = "sankey" -> {renderSankey(d, w, h)}
    [] t = "sunburst" -> {renderSunburst(d, w, h)}
    [] OTHER -> {Group(Num(0), Num(0), <<>>)}

\* the switch of the render effect: the groups the chosen function may
\* build, a TypeError among the children when it is abandoned
LayoutCall(t, d, w, h) ==
  CASE t = "treemap" -> renderTreemap(d, w, h)
    [] t = "heatmap" -> {renderHeatmap(d, w, h)}
    [] t = "sankey" -> {renderSankey(d, w, h)}
    [] t = "sunburst" -> {renderSunburst(d, w, h)}
    [] OTHER -> renderTreemap(d, w, h)

\* the group as it is left in the svg element
Appended(g) == [g EXCEPT !.children = UntilRaise(g.children)]

\* the groups the chosen function may leave in the svg element
RenderChart(t, d, w, h) == { Appended(g) : g \in LayoutCall(t, d, w, h) }

\* the possible outcomes of the effect run on children: the children of the
\* svg element afterwards and whether an exception left the effect
EffectOutcomes(children, t, d, w, h) ==
  IF Len(d) = 0 THEN {[svg |-> children, thrown |-> FALSE]}
  ELSE { [svg |-> Append(ClearChildren(children), Appended(g)),
          thrown |-> Raises(g.children)] : g \in LayoutCall(t, d, w, h) }

\* if (item.category) categories.add(item.category);
\* if (item.name) categories.add(item.name);
RECURSIVE CategoriesAndNames(_)
CategoriesAndNames(items) ==
  IF items = <<>> THEN <<>>
  ELSE LET front == CategoriesAndNames(SubSeq(items, 1, Len(items) - 1))
           item == items[Len(items)]
       IN front \o (IF item.category # None THEN <<item.category>> ELSE <<>>)
                \o (IF item.name # None /\ item.name # Undefined
                    THEN <<item.name>> ELSE <<>>)

\* the categories alone, one entry per item
CategoryPerItem(items) == [i \in DOMAIN items |-> items[i].category]

\* Array.from(categories), categories being a Set
getUniqueCategories(items) == Distinct(CategoriesAndNames(items))

LegendSize == 8

\* an array's slice(0, end)
SliceTo(array, end) == SubSeq(array, 1, IF Len(array) < end THEN Len(array) ELSE end)

\* showLegend && data.length > 0 && getUniqueCategories(data).slice(0, 8).map(...)
Legend(showLegend, items) ==
  IF showLegend /\ Len(items) > 0
  THEN SliceTo(getUniqueCategories(items), LegendSize)
  ELSE <<>>

Props == [type |-> type, data |-> data, width |-> width, height |-> height]

\* an effect whose treemap layout sorts the data prop itself
RenderEffectSortingProps ==
  /\ effectPending /\ ~thrown
  /\ \E outcome \in EffectOutcomes(svg, type, data, width, height) :
       svg' = outcome.svg /\ thrown' = outcome.thrown
  /\ effectPending' = FALSE
  /\ firstRender' = IF firstRender = <<>>
                    THEN <<[props |-> Props, isRTL |-> isRTL, svg |-> svg']>>
                    ELSE firstRender
  /\ effectRTL' = isRTL
  /\ data' = IF type \in {"heatmap", "sankey", "sunburst"} THEN data
             ELSE StableSortDesc(data)
  /\ UNCHANGED <<type, width, height, isRTL, legend>>

\* useEffect(() => {...}, [type, data, width, height, colorScheme, isD3Loaded])
RenderEffect ==
  /\ effectPending /\ ~thrown
  /\ \E outcome \in EffectOutcomes(svg, type, data, width, height) :
       svg' = outcome.svg /\ thrown' = outcome.thrown
  /\ effectPending' = FALSE
  /\ firstRender' = IF firstRender = <<>>
                    THEN <<[props |-> Props, isRTL |-> isRTL, svg |-> svg']>>
                    ELSE firstRender
  /\ effectRTL' = isRTL
  /\ UNCHANGED <<type, data, width, height, isRTL, legend>>

\* the parent re-renders the component with new props; the effect is scheduled
PropsChange(t, d, w, h) ==
  /\ ~effectPending /\ ~thrown
  /\ type' = t /\ data' = d /\ width' = w /\ height' = h
  /\ legend' = Legend(TRUE, d)
  /\ effectPending' = TRUE
  /\ UNCHANGED <<isRTL, svg, thrown, firstRender, effectRTL>>

\* the parent re-renders the component with the other isRTL and otherwise the
\* same props: isRTL is no dependency of the effect, which is not scheduled,
\* and the legend keeps its labels (it changes its alignment only)
DirectionChange ==
  /\ ~effectPending /\ ~thrown
  /\ isRTL' = ~isRTL
  /\ UNCHANGED <<type, data, width, height, svg, legend, thrown, effectPending,
                 firstRender, effectRTL>>

\* ------------------------------------------------------------------------
\* Inputs
\* ------------------------------------------------------------------------
ExampleNames == <<<<"D", "o", "w", "n", "t", "o", "w", "n">>,
                 <<"H", "e", "r", "i", "t", "a", "g", "e", " ", "V", "i", "l", "l", "a", "g", "e">>,
                 <<"A", "l", "-", "U", "l", "a", " ", "O", "l", "d", " ", "T", "o", "w", "n">>,
                 <<"M", "a", "r", "k", "e", "t", " ", "D", "i", "s", "t", "r", "i", "c", "t">>,
                 <<"R", "e", "s", "i", "d", "e", "n", "t", "i", "a", "l", " ", "A", "r", "e", "a">>>>

ItemName(i) == ExampleNames[((i - 1) % Len(ExampleNames)) + 1]

\* item values: small integers of both signs and non-finite numbers
ValueSet == { Num(v) : v \in -1..MaxValue } \cup {NaN, PosInf}

\* items that carry a name and a value only (treemap, sunburst)
NamedItems(values) ==
  [i \in DOMAIN values |-> ChartDataItem(ItemName(i), values[i], None, None, None, None, None)]

RowKeys == {<<"r", "1">>, <<"r", "2">>}
ColKeys == {<<"c", "1">>, <<"c", "2">>}
HeatValues == {Num(-1), Num(0), Num(MaxValue), NaN, PosInf}

\* items of a heatmap: cells[i] = <<row, col, value>>
HeatItems(cells) ==
  [i \in DOMAIN cells |->
     ChartDataItem(ItemName(i), cells[i][3], None, None, None, cells[i][1], cells[i][2])]

\* items of a heatmap that leave out row, col or category:
\* cells[i] = <<row, col, category>>
OptionalRows == {None, <<"r", "1">>}
OptionalCols == {None, <<"c", "1">>}
OptionalCategories == {None, <<"H", "i", "g", "h">>}

\* rows, columns and categories of items whose keys may be the number 0
FalsyRows == {None, NumberKey(0), NumberKey(1)}
FalsyCols == {NumberKey(0), <<"c", "1">>}
FallbackCategories == {None, <<"H", "i", "g", "h">>, <<"L", "o", "w">>}

SparseHeatItems(cells) ==
  [i \in DOMAIN cells |->
     ChartDataItem(ItemName(i), Num(i), cells[i][3], None, None, cells[i][1], cells[i][2])]

\* a full grid of 2 rows x 3 columns, one item per cell in row-major order,
\* followed by the items of extra
GridRows == <<<<"r", "1">>, <<"r", "2">>>>
GridCols == <<<<"c", "1">>, <<"c", "2">>, <<"c", "3">>>>
GridValues == {Num(0), Num(MaxValue)}

GridItems(values, extra) ==
  [i \in 1..6 |->
     ChartDataItem(ItemName(i), values[i], None, None, None,
                   GridRows[((i - 1) \div 3) + 1], GridCols[((i - 1) % 3) + 1])]
  \o extra

\* an item whose row or column is none of the grid's
ExtraRows == {None, <<"r", "1">>, <<"r", "3">>}
ExtraCols == {<<"c", "1">>, <<"c", "4">>}
ExtraValues == {Num(1), Num(MaxValue + 1)}

ExtraItems ==
  {<<>>} \cup
  { <<ChartDataItem(ItemName(7), v, None, None, None, r, c)>> :
      <<r, c, v>> \in { t \in ExtraRows \X ExtraCols \X ExtraValues :
                          ~(t[1] = <<"r", "1">> /\ t[2] = <<"c", "1">>) } }

SourceKeys == {None, <<"s", "1">>, <<"s", "2">>}
TargetKeys == {None, <<"t", "1">>, <<"t", "2">>}
FlowValues == {Num(0), Num(1), Num(MaxValue)}

\* items of a sankey: edges[i] = <<source, target, value>>
FlowItems(edges) ==
  [i \in DOMAIN edges |->
     ChartDataItem(ItemName(i), edges[i][3], None, edges[i][1], edges[i][2], None, None)]

\* items with a name and an optional category, which may repeat an earlier
\* category or equal a name: categories[i] = 0 (none), 1 (the category in
\* turn) or 2 (the first item's name)
ExampleCategories == <<<<"H", "i", "g", "h", " ", "T", "r", "a", "f", "f", "i", "c">>,
                      <<"M", "e", "d", "i", "u", "m">>,
                      <<"L", "o", "w">>,
                      <<"C", "l", "o", "s", "e", "d">>>>

CategorizedItems(categories) ==
  [i \in DOMAIN categories |->
     ChartDataItem(ItemName(i), Num(i),
                   CASE categories[i] = 0 -> None
                     [] categories[i] = 1 ->
                          ExampleCategories[((i - 1) % Len(ExampleCategories)) + 1]
                     [] OTHER -> ItemName(1),
                   None, None, None, None)]

\* values on both sides of the thresholds of formatValue, and values whose
\* quotient by 1000 or 1000000 lies midway between two one-decimal numbers
FormatSamples ==
  { 50 * k : k \in 0..MaxFormatSteps } \cup { 50000 * k : k \in 1..MaxFormatSteps }
  \cup {999, 1001, 999949, 999950, 999999, 1000001}

\* items of which some have no name: named[i] tells whether item i has one
PartlyNamedItems(named) ==
  [i \in DOMAIN named |->
     ChartDataItem(IF named[i] THEN ItemName(i) ELSE Undefined, Num(i), None,
                   <<"s", "1">>, <<"t", "1">>, None, None)]

\* the treemap items [{A, 60}, {B, 40}], for a 200 x 100 svg element
ScenarioA ==
  <<ChartDataItem(<<"A">>, Num(60), None, None, None, None, None),
    ChartDataItem(<<"B">>, Num(40), None, None, None, None, None)>>

ScenarioASize == <<200, 100>>

\* the sunburst items [{25}, {75}]
ScenarioB == NamedItems(<<Num(25), Num(75)>>)

\* sizes of the svg element whose inner rectangle, or half of it, is 60 or 61
\* wide and 30 or 31 high, with one item or two equal items to fill it
ThresholdSizes == {<<80, 50>>, <<81, 50>>, <<80, 51>>, <<81, 51>>, <<140, 50>>, <<142, 51>>}
ThresholdValues == {<<Num(1)>>, <<Num(1), Num(1)>>}

\* width x height of the svg element; 600 x 400 is the default
Sizes == {<<600, 400>>, <<400, 400>>, <<300, 500>>}
DefaultSize == <<600, 400>>

\* the component is mounted with props (t, d, size) and isRTL at its default
Mounted(t, d, size) ==
  /\ type = t /\ data = d
  /\ width = Num(size[1]) /\ height = Num(size[2])
  /\ isRTL = FALSE
  /\ svg = <<>>
  /\ legend = Legend(TRUE, d)
  /\ thrown = FALSE
  /\ effectPending = TRUE
  /\ firstRender = <<>>
  /\ effectRTL = FALSE

\* ------------------------------------------------------------------------
\* Specifications
\* ------------------------------------------------------------------------
\* one mount of the component with any layout input, followed by its effect
LayoutInit ==
  \/ \E k \in 1..MaxItems : \E values \in [1..k -> ValueSet] : \E size \in Sizes :
       Mounted("treemap", NamedItems(values), size)
  \/ \E k \in 1..MaxItems : \E values \in [1..k -> ValueSet] :
       Mounted("sunburst", NamedItems(values), DefaultSize)
  \/ \E k \in 1..MaxCells : \E cells \in [1..k -> RowKeys \X ColKeys \X HeatValues] :
       Mounted("heatmap", HeatItems(cells), DefaultSize)
  \/ \E k \in 1..MaxEdges : \E edges \in [1..k -> SourceKeys \X TargetKeys \X FlowValues] :
       Mounted("sankey", FlowItems(edges), DefaultSize)
  \/ \E k \in 1..MaxCells :
       \E cells \in [1..k -> OptionalRows \X OptionalCols \X OptionalCategories] :
         Mounted("heatmap", SparseHeatItems(cells), DefaultSize)
  \/ \E values \in [1..6 -> GridValues] : \E extra \in ExtraItems :
       Mounted("heatmap", GridItems(values, extra), DefaultSize)
  \/ \E k \in 1..MaxLegendItems : \E categories \in [1..k -> 0..2] :
       Mounted("treemap", CategorizedItems(categories), DefaultSize)
  \/ \E n \in FormatSamples :
       Mounted("treemap", NamedItems(<<Num(n)>>), DefaultSize)
  \/ \E t \in ChartTypes : \E k \in 1..MaxItems : \E named \in [1..k -> BOOLEAN] :
       Mounted(t, PartlyNamedItems(named), DefaultSize)
  \/ Mounted("treemap", ScenarioA, ScenarioASize)
  \/ Mounted("sunburst", ScenarioB, DefaultSize)
  \/ \E values \in ThresholdValues : \E size \in ThresholdSizes :
       Mounted("treemap", NamedItems(values), size)
  \/ \E first, second \in FalsyRows \X FalsyCols \X FallbackCategories :
       Mounted("heatmap", SparseHeatItems(<<first, second>>), DefaultSize)

LayoutSpec == LayoutInit /\ [][RenderEffect]_vars

\* the component's life: mount, effect, and any number of prop changes, each
\* followed by its effect
LifeValues == {Num(1), Num(MaxValue)}
MaxLifeItems == 1

LifeItems(values) ==
  [i \in DOMAIN values |->
     ChartDataItem(ItemName(i), values[i], None, <<"s", "1">>, <<"t", "1">>, None, None)]

Init ==
  \E t \in ChartTypes : \E k \in 0..MaxLifeItems : \E values \in [1..k -> LifeValues] :
    Mounted(t, LifeItems(values), DefaultSize)

Next ==
  \/ RenderEffect
  \/ DirectionChange
  \/ \E t \in ChartTypes : \E k \in 0..MaxLifeItems : \E values \in [1..k -> LifeValues] :
       PropsChange(t, LifeItems(values), Num(DefaultSize[1]), Num(DefaultSize[2]))

Spec == Init /\ [][Next]_vars

\* ------------------------------------------------------------------------
\* Reading the svg element
\* ------------------------------------------------------------------------
RECURSIVE AllChildren(_)
\* the children of every group of the svg element, in document order
AllChildren(groups) ==
  IF groups = <<>> THEN <<>>
  ELSE Head(groups).children \o AllChildren(Tail(groups))

Elements(tag) == SelectSeq(AllChildren(svg), LAMBDA e : e.tag = tag)

\* the render effect has run on the current props and appended a chart
Rendered(t) == ~effectPending /\ type = t /\ Len(data) > 0

\* a == b on numbers: false when either side is NaN
NumEq(a, b) == ~IsNaN(a) /\ ~IsNaN(b) /\ a = b

IsPositive(a) == IsFinite(a) /\ a.n > 0

AllPositive == \A i \in DOMAIN data : IsPositive(data[i].value)

\* every item has the name that ChartDataItem requires
Named == \A i \in DOMAIN data : data[i].name # Undefined

RECURSIVE SumSeq(_)
SumSeq(nums) == IF nums = <<>> THEN Num(0) ELSE Add(Head(nums), SumSeq(Tail(nums)))

\* ------------------------------------------------------------------------
\* C1: treemap tiling
\* ------------------------------------------------------------------------
TreemapInnerWidth == Sub(width, Num(2 * TreemapMargin))
TreemapInnerHeight == Sub(height, Num(2 * TreemapMargin))

Areas(rects) == [i \in DOMAIN rects |-> Mul(rects[i].width, rects[i].height)]

\* the interiors of rectangles a and b meet
Overlap(a, b) ==
  /\ Lt(a.x, Add(b.x, b.width)) /\ Lt(b.x, Add(a.x, a.width))
  /\ Lt(a.y, Add(b.y, b.height)) /\ Lt(b.y, Add(a.y, a.height))

NoOverlap(rects) ==
  \A i, j \in DOMAIN rects : i # j => ~Overlap(rects[i], rects[j])

Inside(rects, w, h) ==
  \A i \in DOMAIN rects :
    /\ Ge(rects[i].x, Num(0)) /\ Ge(rects[i].y, Num(0))
    /\ Le(Add(rects[i].x, rects[i].width), w)
    /\ Le(Add(rects[i].y, rects[i].height), h)

\* C1 as stated: after a treemap of strictly positive values is rendered, the
\* rect elements on the surface do not overlap and their areas add up to the
\* area of the target rectangle (here even the inner rectangle that is left
\* after the margins, the smaller of the two candidates)
C1_EmittedRectsTile ==
  (Rendered("treemap") /\ Named /\ AllPositive) =>
    /\ NoOverlap(Elements("rect"))
    /\ NumEq(SumSeq(Areas(Elements("rect"))),
             Mul(TreemapInnerWidth, TreemapInnerHeight))

\* C1 amended: after a treemap of strictly positive values is rendered on a
\* canvas wider and higher than the margins, the rectangles computed by
\* squarify lie inside the inner rectangle (width - 20) x (height - 20), do
\* not overlap and have total area equal to it; every rect element drawn is
\* one of them, at the same x and y, with width and height reduced by 2
C1_SquarifyTiles ==
  (Rendered("treemap") /\ Named /\ AllPositive) =>
    \A rects \in squarify(data, TreemapInnerWidth, TreemapInnerHeight, SumValues(data)) :
      /\ Len(rects) = Len(data)
      /\ Inside(rects, TreemapInnerWidth, TreemapInnerHeight)
      /\ NoOverlap(rects)
      /\ NumEq(SumSeq(Areas(rects)), Mul(TreemapInnerWidth, TreemapInnerHeight))
      /\ Elements("rect") =
           [i \in DOMAIN rects |->
              [tag |-> "rect", x |-> rects[i].x, y |-> rects[i].y,
               width |-> MathMax(Num(0), Sub(rects[i].width, Num(2))),
               height |-> MathMax(Num(0), Sub(rects[i].height, Num(2))),
               fill |-> (i - 1) % PaletteSize]]

\* a treemap of three strictly positive values has been drawn
C1_Witness ==
  /\ Rendered("treemap") /\ Named /\ AllPositive
  /\ Len(data) = 3 /\ Len(Elements("rect")) = 3
  /\ data[1].value # data[2].value

\* ------------------------------------------------------------------------
\* C2: angle conservation
\* ------------------------------------------------------------------------
\* endAngle - startAngle of a drawn wedge, read from its path
WedgeSpan(path) == Sub(path.d.startOuter.angle, path.d.endOuter.angle)

WedgeSpans == [i \in DOMAIN Elements("path") |-> WedgeSpan(Elements("path")[i])]

\* C2: after a sunburst of strictly positive values is rendered, one wedge is
\* drawn per item and the spans endAngle - startAngle of the wedges add up to
\* one full turn, 2 in units of Math.PI
C2_AngleConservation ==
  (Rendered("sunburst") /\ Named /\ AllPositive) =>
    /\ Len(Elements("path")) = Len(data)
    /\ NumEq(SumSeq(WedgeSpans), Num(2))

\* a sunburst of three strictly positive, unequal values has been drawn
C2_Witness ==
  /\ Rendered("sunburst") /\ Named /\ AllPositive
  /\ Len(data) = 3 /\ Len(Elements("path")) = 3
  /\ data[1].value # data[2].value

\* ------------------------------------------------------------------------
\* C3: flow conservation
\* ------------------------------------------------------------------------
SankeyInnerHeight == Sub(height, Num(2 * SankeyMargin))

\* the items drawn as a curve whose field f names node, in data order
DrawnEdgesAt(f, node) ==
  SelectSeq(data, LAMBDA d : d.source # None /\ d.target # None /\ d[f] = node)

\* the vertical shares (linkHeight) of the curves drawn at a node
SharesAt(f, node) ==
  [i \in DOMAIN DrawnEdgesAt(f, node) |->
     LinkHeight(data, DrawnEdgesAt(f, node)[i], SankeyInnerHeight)]

\* C3: after a sankey is rendered, at every source node and at every target
\* node the shares of the curves drawn there add up to the height of the
\* node's rectangle
C3_FlowConservation ==
  Rendered("sankey") =>
    \A f \in {"source", "target"} :
      \A k \in DOMAIN NodesOf(data, f) :
        NumEq(SumSeq(SharesAt(f, NodesOf(data, f)[k])),
              NodeHeight(data, f, NodesOf(data, f)[k], SankeyInnerHeight))

\* ------------------------------------------------------------------------
\* C4: a render replaces the previous output
\* ------------------------------------------------------------------------
\* C4: once the effect has run, the surface holds exactly one chart of the
\* current props, and nothing at all when the current data is empty
C4_RenderReplaces ==
  ~effectPending =>
    IF Len(data) = 0 THEN svg = <<>>
    ELSE svg \in { <<g>> : g \in RenderChart(type, data, width, height) }

\* ------------------------------------------------------------------------
\* C5: idempotence
\* ------------------------------------------------------------------------
\* C5: whenever the effect has run on props equal to those of the first
\* render, the surface equals the surface after the first render, whatever
\* was rendered in between
C5_Idempotent ==
  (~effectPending /\ firstRender # <<>> /\ firstRender[1].props = Props) =>
    svg = firstRender[1].svg

\* ------------------------------------------------------------------------
\* C6: treemap with zero total value
\* ------------------------------------------------------------------------
AllZero == \A i \in DOMAIN data : data[i].value = Num(0)

\* C6: after a treemap whose values are all 0 is rendered, no rectangle (and
\* no other element) has been emitted
C6_ZeroTotalTreemapEmpty ==
  (Rendered("treemap") /\ AllZero) => AllChildren(svg) = <<>>

\* ------------------------------------------------------------------------
\* C7: sunburst with zero total value
\* ------------------------------------------------------------------------
\* both angles of a wedge path are finite
FiniteWedge(path) ==
  IsFinite(path.d.startOuter.angle) /\ IsFinite(path.d.endOuter.angle)

\* C7: after a sunburst whose grand total is 0 is rendered, no wedge has been
\* emitted, so no path carries a NaN or infinite angle
C7_ZeroTotalSunburstEmpty ==
  (Rendered("sunburst") /\ SumValues(data) = Num(0)) =>
    /\ Elements("path") = <<>>
    /\ \A i \in DOMAIN Elements("path") : FiniteWedge(Elements("path")[i])

\* ------------------------------------------------------------------------
\* C8: treemap with zero remaining area
\* ------------------------------------------------------------------------
FiniteRect(r) ==
  IsFinite(r.x) /\ IsFinite(r.y) /\ IsFinite(r.width) /\ IsFinite(r.height)

\* C8: after a treemap of finite non-negative values with a positive total
\* and at least one value 0 is rendered, every emitted rectangle has finite
\* x, y, width and height
C8_ZeroItemsFinite ==
  (/\ Rendered("treemap")
   /\ \A i \in DOMAIN data : IsFinite(data[i].value) /\ data[i].value.n >= 0
   /\ IsPositive(SumValues(data))
   /\ \E i \in DOMAIN data : data[i].value = Num(0))
  => \A i \in DOMAIN Elements("rect") : FiniteRect(Elements("rect")[i])

\* ------------------------------------------------------------------------
\* C9: input guarding
\* ------------------------------------------------------------------------
\* the items the dispatcher is said to keep: finite, non-negative values
Guarded(items) ==
  SelectSeq(items, LAMBDA d : IsFinite(d.value) /\ d.value.n >= 0)

\* C9: after any non-empty request is rendered, the surface is the chart of
\* the guarded items alone (an empty surface when none is left): a dropped
\* item contributes to no total, no minimum or maximum and no element
C9_InputGuarding ==
  (~effectPending /\ Len(data) > 0) =>
    IF Guarded(data) = <<>> THEN AllChildren(svg) = <<>>
    ELSE svg \in { <<g>> : g \in RenderChart(type, Guarded(data), width, height) }

\* ------------------------------------------------------------------------
\* C10: heatmap intensity range
\* ------------------------------------------------------------------------
\* C10: after a heatmap is rendered, the normalized value of every item lies
\* in [0, 1], and it is 0 for every item when the minimum equals the maximum
C10_IntensityRange ==
  Rendered("heatmap") =>
    \A i \in DOMAIN data :
      /\ Ge(NormalizedValue(data, data[i]), Num(0))
      /\ Le(NormalizedValue(data, data[i]), Num(1))
      /\ NumEq(MathMinAll(Values(data)), MathMaxAll(Values(data)))
           => NormalizedValue(data, data[i]) = Num(0)

\* ------------------------------------------------------------------------
\* C11: heatmap cell count
\* ------------------------------------------------------------------------
\* the positions at which a cell rectangle has been emitted
CellPositions == { <<Elements("rect")[i].x, Elements("rect")[i].y>> :
                   i \in DOMAIN Elements("rect") }

\* the (row key, column key) pairs present in the input
KeyPairs == { <<RowKey(data[i]), ColKey(data[i])>> : i \in DOMAIN data }

FullGrid ==
  /\ Len(data) >= 6
  /\ \A i \in 1..6 : /\ data[i].row = GridRows[((i - 1) \div 3) + 1]
                      /\ data[i].col = GridCols[((i - 1) % 3) + 1]

NewRow == \A i \in 1..6 : RowKey(data[7]) # RowKey(data[i])
NewCol == \A i \in 1..6 : ColKey(data[7]) # ColKey(data[i])

\* a seventh item follows the grid, with a row or a column the grid lacks
GridPlusUnknown == FullGrid /\ Len(data) = 7 /\ (NewRow \/ NewCol)

\* the rect elements of the heatmap of the six grid items alone
GridAloneRects ==
  SelectSeq(renderHeatmap(SubSeq(data, 1, 6), width, height).children,
            LAMBDA e : e.tag = "rect")

\* C12 as stated: after a heatmap of a full 2 x 3 grid and an item with an
\* unknown (row, col) is rendered, the cell rectangles on the surface are
\* those of the six grid items alone: same position, size and fill
C12_UnknownItemDropped ==
  (Rendered("heatmap") /\ GridPlusUnknown) => Elements("rect") = GridAloneRects

\* C12 amended: after a heatmap of a full 2 x 3 grid and a seventh item with
\* a new row or column key is rendered, seven cell rectangles are emitted at
\* seven positions; the grid has one more row and/or column; the six grid
\* items keep their row and column indices but every cell is smaller than
\* without the seventh item; the seventh item has its own cell in the new
\* row or column; the fills of the six are unchanged when the new value lies
\* between their minimum and maximum
C12_UnknownItemAdded ==
  (Rendered("heatmap") /\ GridPlusUnknown) =>
    LET rects == Elements("rect")
        nRows == IF NewRow THEN 3 ELSE 2
        nCols == IF NewCol THEN 4 ELSE 3
        cellWidth == Div(Sub(width, Num(HeatmapMarginLeft + HeatmapMarginOther)),
                         Num(nCols))
        cellHeight == Div(Sub(height, Num(2 * HeatmapMarginOther)), Num(nRows))
        sixValues == Values(SubSeq(data, 1, 6))
    IN /\ Len(rects) = 7
       /\ Cardinality(CellPositions) = 7
       /\ \A i \in 1..7 :
            /\ rects[i].width = Sub(cellWidth, Num(2))
            /\ rects[i].height = Sub(cellHeight, Num(2))
       /\ \A i \in 1..6 :
            /\ rects[i].x = Mul(Num((i - 1) % 3), cellWidth)
            /\ rects[i].y = Mul(Num((i - 1) \div 3), cellHeight)
            /\ Lt(Mul(rects[i].width, rects[i].height),
                  Mul(GridAloneRects[i].width, GridAloneRects[i].height))
       /\ NewCol => rects[7].x = Mul(Num(3), cellWidth)
       /\ NewRow => rects[7].y = Mul(Num(2), cellHeight)
       /\ (/\ Ge(data[7].value, MathMinAll(sixValues))
           /\ Le(data[7].value, MathMaxAll(sixValues)))
          => \A i \in 1..6 : rects[i].fill = GridAloneRects[i].fill

\* a grid of unequal values and a seventh item in a new row and a new
\* column have been drawn
C12_Witness ==
  /\ Rendered("heatmap") /\ GridPlusUnknown /\ NewRow /\ NewCol
  /\ \E i, j \in 1..6 : data[i].value # data[j].value
  /\ Len(Elements("rect")) = 7

\* ------------------------------------------------------------------------
\* C13: the legend
\* ------------------------------------------------------------------------
\* the category and the name of every item, in the order they are seen
Seen == [p \in 1..(2 * Len(data)) |->
           IF p % 2 = 1 THEN data[(p + 1) \div 2].category ELSE data[p \div 2].name]

\* the values among them: a missing or empty category or name is none
SeenValues == { Seen[p] : p \in DOMAIN Seen } \ {None, Undefined}

FirstSeen(v) == CHOOSE p \in DOMAIN Seen :
                  Seen[p] = v /\ \A q \in DOMAIN Seen : Seen[q] = v => p <= q

\* C13: the legend holds category and name values of the items only, each
\* once, in the order in which they are first seen; it holds all of them
\* when they are at most 8, and the 8 seen first otherwise
C13_Legend ==
  /\ \A i \in DOMAIN legend : legend[i] \in SeenValues
  /\ \A i, j \in DOMAIN legend : i < j => FirstSeen(legend[i]) < FirstSeen(legend[j])
  /\ Len(legend) = IF Cardinality(SeenValues) < 8 THEN Cardinality(SeenValues) ELSE 8
  /\ \A v \in SeenValues :
       (\A i \in DOMAIN legend : legend[i] # v) =>
         \A i \in DOMAIN legend : FirstSeen(legend[i]) < FirstSeen(v)

\* the items have nine distinct names and categories, one category twice,
\* and the legend shows eight of them
C13_Witness ==
  /\ Cardinality(SeenValues) = 9
  /\ \E i, j \in DOMAIN data : i # j /\ data[i].category = data[j].category
                                /\ data[i].category # None
  /\ Len(legend) = 8

\* ------------------------------------------------------------------------
\* C14: formatValue
\* ------------------------------------------------------------------------
\* the one-decimal numbers t / 10 nearest to n / unit
NearestTenths(n, unit) ==
  { t \in ((10 * n) \div unit)..(((10 * n) \div unit) + 1) :
      2 * Abs(t * unit - 10 * n) <= unit }

OneDecimal(t) == NatToStr(t \div 10) \o <<".">> \o NatToStr(t % 10)

\* a treemap of one item whose value is a non-negative integer is drawn; its
\* second text element shows formatValue of the value
ShowsValue ==
  /\ Rendered("treemap") /\ Len(data) = 1
  /\ data[1].value.d = 1 /\ data[1].value.n >= 0
  /\ Len(Elements("text")) = 2

\* C14: the text shown for a non-negative integer n is n / 1000000 with one
\* decimal and 'M' when n >= 1000000, n / 1000 with one decimal and 'K' when
\* 1000 <= n < 1000000, the decimal digits of n otherwise; 999 gives "999",
\* 1500 gives "1.5K" and 2500000 gives "2.5M"
C14_FormatThresholds ==
  ShowsValue =>
    LET n == data[1].value.n
        shown == Elements("text")[2].text
    IN /\ n >= 1000000 =>
            \E t \in NearestTenths(n, 1000000) : shown = OneDecimal(t) \o <<"M">>
       /\ (n >= 1000 /\ n < 1000000) =>
            \E t \in NearestTenths(n, 1000) : shown = OneDecimal(t) \o <<"K">>
       /\ n < 1000 => shown = NatToStr(n)
       /\ n = 999 => shown = <<"9", "9", "9">>
       /\ n = 1500 => shown = <<"1", ".", "5", "K">>
       /\ n = 2500000 => shown = <<"2", ".", "5", "M">>

\* the value 2500000 is shown as "2.5M"
C14_Witness ==
  ShowsValue /\ data[1].value = Num(2500000)
  /\ Elements("text")[2].text = <<"2", ".", "5", "M">>

\* ------------------------------------------------------------------------
\* C15: no layout throws
\* ------------------------------------------------------------------------
\* C15: no exception ever leaves the render effect, whatever the chart type
\* and the items, items without name, category, row, col, source or target
\* and items with non-finite values included
C15_NoLayoutThrows == ~thrown

\* ------------------------------------------------------------------------
\* C16: directionality does not reach the geometry
\* ------------------------------------------------------------------------
\* the effect has run on a request that equals the first one rendered except
\* for isRTL
SameButDirection ==
  /\ ~effectPending /\ Len(data) > 0
  /\ firstRender # <<>>
  /\ firstRender[1].props = Props
  /\ firstRender[1].isRTL # isRTL

\* C16: after a request that equals the first one rendered in type, items,
\* width and height and differs from it in isRTL is rendered, the surface
\* holds the same elements with the same positions, sizes, angles and paths
\* as after the first one, whatever the chart type
C16_DirectionIndependent == SameButDirection => svg = firstRender[1].svg

\* a sunburst has been rendered left-to-right first and, after the
\* direction changed, the same sunburst has been rendered right-to-left
C16_Witness ==
  /\ SameButDirection /\ type = "sunburst" /\ isRTL /\ effectRTL
  /\ Len(Elements("path")) = Len(data)

\* ------------------------------------------------------------------------
\* C17: scenario A
\* ------------------------------------------------------------------------
\* the treemap of scenario A has been rendered
ScenarioARendered ==
  Rendered("treemap") /\ data = ScenarioA
  /\ width = Num(ScenarioASize[1]) /\ height = Num(ScenarioASize[2])

\* the remainder from which item k of sorted is cut: the state of squarify
\* after the first k - 1 items
RemainderAt(sorted, k) ==
  PlaceAll([x |-> Num(0), y |-> Num(0),
            remainingWidth |-> TreemapInnerWidth,
            remainingHeight |-> TreemapInnerHeight,
            remainingValue |-> SumValues(sorted), result |-> <<>>],
           SubSeq(sorted, 1, k - 1))

\* item k of sorted is placed by the branch taken when remainingWidth >
\* remainingHeight
WidthCut(sorted, k) ==
  Gt(RemainderAt(sorted, k).remainingWidth, RemainderAt(sorted, k).remainingHeight)

\* C17 as stated: in scenario A exactly two rectangles are emitted, both are
\* placed by the width-cut branch, their widths are as 60 : 40 and their
\* areas add up to 20000
C17_ScenarioAFullCanvas ==
  ScenarioARendered =>
    LET rects == Elements("rect")
    IN /\ Len(rects) = 2
       /\ WidthCut(data, 1) /\ WidthCut(data, 2)
       /\ NumEq(Mul(rects[1].width, Num(40)), Mul(rects[2].width, Num(60)))
       /\ NumEq(SumSeq(Areas(rects)), Num(20000))

\* C17 amended: in scenario A squarify lays out the inner rectangle 180 x 80
\* in two full-height columns, A 108 wide at x = 0 and B 72 wide at x = 108
\* (widths as 60 : 40, areas adding up to 14400); A is placed by the
\* width-cut branch, B by the other branch, its remainder 72 x 80 not being
\* wider than high; the two rect elements emitted are 106 x 78 and 70 x 78
C17_ScenarioAInner ==
  ScenarioARendered =>
    /\ squarify(data, TreemapInnerWidth, TreemapInnerHeight, SumValues(data)) =
         { <<[item |-> data[1], x |-> Num(0), y |-> Num(0),
              width |-> Num(108), height |-> Num(80)],
             [item |-> data[2], x |-> Num(108), y |-> Num(0),
              width |-> Num(72), height |-> Num(80)]>> }
    /\ WidthCut(data, 1) /\ ~WidthCut(data, 2)
    /\ Elements("rect") =
         <<[tag |-> "rect", x |-> Num(0), y |-> Num(0),
            width |-> Num(106), height |-> Num(78), fill |-> 0],
           [tag |-> "rect", x |-> Num(108), y |-> Num(0),
            width |-> Num(70), height |-> Num(78), fill |-> 1]>>

\* scenario A has been rendered, with the labels of both rectangles
C17_Witness ==
  ScenarioARendered /\ Len(Elements("rect")) = 2 /\ Len(Elements("text")) = 4

\* ------------------------------------------------------------------------
\* C18: sunburst wedges in input order, each starting where the last ended
\* ------------------------------------------------------------------------
\* startAngle and endAngle of a wedge path, in units of Math.PI
StartAngle(path) == path.d.endOuter.angle
EndAngle(path) == path.d.startOuter.angle

\* C18: after a sunburst is rendered, wedge i belongs to item i of the input
\* as given: the first wedge starts at angle 0, every later wedge starts
\* where the wedge before it ends, and wedge i ends value(i) / total of a
\* full turn after its start (the angles are compared as they are written,
\* NaN included); one wedge is drawn per item when every item has its name;
\* items [25, 75] give the wedges [0, PI/2) and [PI/2, 2 PI)
C18_WedgesContiguous ==
  Rendered("sunburst") =>
    LET paths == Elements("path")
    IN /\ Named => Len(paths) = Len(data)
       /\ \A i \in DOMAIN paths :
            /\ StartAngle(paths[i]) = IF i = 1 THEN Num(0) ELSE EndAngle(paths[i - 1])
            /\ EndAngle(paths[i]) =
                 Add(StartAngle(paths[i]),
                     Mul(Div(data[i].value, SumValues(data)), Num(2)))
            /\ paths[i].fill = (i - 1) % PaletteSize
       /\ data = ScenarioB =>
            /\ StartAngle(paths[1]) = Num(0) /\ EndAngle(paths[1]) = Frac(1, 2)
            /\ StartAngle(paths[2]) = Frac(1, 2) /\ EndAngle(paths[2]) = Num(2)

\* the sunburst of [25, 75] has been drawn, the smaller value first
C18_Witness ==
  /\ Rendered("sunburst") /\ data = ScenarioB
  /\ Len(Elements("path")) = 2
  /\ EndAngle(Elements("path")[1]) = Frac(1, 2)

\* ------------------------------------------------------------------------
\* C19: sankey items without source or target
\* ------------------------------------------------------------------------
\* the indices of the items that have both a source and a target, ascending
RECURSIVE CompleteEdges(_)
CompleteEdges(n) ==
  IF n = 0 THEN <<>>
  ELSE CompleteEdges(n - 1)
       \o (IF data[n].source # None /\ data[n].target # None THEN <<n>> ELSE <<>>)

\* C19: after a sankey is rendered, the curves on the surface are, in order,
\* one for every item that has both a source and a target (the curve of item
\* i carries the colour of index i - 1), and none for any other item
C19_EdgeDropping ==
  Rendered("sankey") =>
    LET paths == Elements("path")
        edges == CompleteEdges(Len(data))
    IN /\ Len(paths) = Len(edges)
       /\ \A k \in DOMAIN paths : paths[k].stroke = (edges[k] - 1) % PaletteSize

\* a sankey of one item with source and target and one item without target
\* has been drawn with a single curve
C19_Witness ==
  /\ Rendered("sankey") /\ Len(data) = 2
  /\ data[1].source # None /\ data[1].target # None
  /\ data[2].source # None /\ data[2].target = None
  /\ Len(Elements("path")) = 1

\* ------------------------------------------------------------------------
\* C20: a square remainder
\* ------------------------------------------------------------------------
\* the items of the rectangles of squarify, in the order they were placed
PlacedItems(rects) == [k \in DOMAIN rects |-> rects[k].item]

\* the remainder from which rectangle k is cut is as wide as high
SquareAt(rects, k) ==
  NumEq(RemainderAt(PlacedItems(rects), k).remainingWidth,
        RemainderAt(PlacedItems(rects), k).remainingHeight)

\* the share of the remaining value that rectangle k stands for
ShareAt(rects, k) ==
  Div(rects[k].item.value, RemainderAt(PlacedItems(rects), k).remainingValue)

TreemapLayouts == squarify(data, TreemapInnerWidth, TreemapInnerHeight, SumValues(data))

\* C20 as stated: after a treemap of named items with strictly positive
\* values is rendered, every item placed into a square remainder is a
\* full-height column at the left edge of the remainder, its width the
\* item's share of the remaining width, and is drawn there
C20_TieToColumn ==
  (Rendered("treemap") /\ Named /\ AllPositive) =>
    \A rects \in TreemapLayouts : \A k \in DOMAIN rects :
      SquareAt(rects, k) =>
        LET rem == RemainderAt(PlacedItems(rects), k)
        IN /\ rects[k].x = rem.x /\ rects[k].y = rem.y
           /\ rects[k].height = rem.remainingHeight
           /\ rects[k].width = Mul(rem.remainingWidth, ShareAt(rects, k))
           /\ Elements("rect")[k].width = MathMax(Num(0), Sub(rects[k].width, Num(2)))
           /\ Elements("rect")[k].height = MathMax(Num(0), Sub(rects[k].height, Num(2)))

\* C20 amended: after a treemap of named items with strictly positive values
\* is rendered, every item placed into a square remainder is a full-width
\* row at the top edge of the remainder, its height the item's share of the
\* remaining height, and is drawn there (2 less wide and high)
C20_TieToRow ==
  (Rendered("treemap") /\ Named /\ AllPositive) =>
    \A rects \in TreemapLayouts : \A k \in DOMAIN rects :
      SquareAt(rects, k) =>
        LET rem == RemainderAt(PlacedItems(rects), k)
        IN /\ rects[k].x = rem.x /\ rects[k].y = rem.y
           /\ rects[k].width = rem.remainingWidth
           /\ rects[k].height = Mul(rem.remainingHeight, ShareAt(rects, k))
           /\ Elements("rect")[k].x = rem.x /\ Elements("rect")[k].y = rem.y
           /\ Elements("rect")[k].width = MathMax(Num(0), Sub(rects[k].width, Num(2)))
           /\ Elements("rect")[k].height = MathMax(Num(0), Sub(rects[k].height, Num(2)))

\* a treemap of values 3 and 1 has been drawn on the 400 x 400 canvas, whose
\* inner rectangle is the square 380 x 380: the first rectangle is a row
\* 380 wide and 285 high
C20_Witness ==
  /\ Rendered("treemap") /\ Named /\ AllPositive
  /\ width = Num(400) /\ height = Num(400)
  /\ Len(data) = 2 /\ data[1].value = Num(3) /\ data[2].value = Num(1)
  /\ Elements("rect")[1].width = Num(378) /\ Elements("rect")[1].height = Num(283)

\* ------------------------------------------------------------------------
\* C21: the slices of the edges at a sankey node
\* ------------------------------------------------------------------------
\* every item has a source and a target
AllComplete ==
  \A i \in DOMAIN data : data[i].source # None /\ data[i].target # None

\* the heights of the slices of the items before item i that share its
\* field f ("source" or "target"), added up
SlicesBefore(f, i) ==
  LET earlier == SelectSeq(SubSeq(data, 1, i - 1), LAMBDA d : d[f] = data[i][f])
  IN SumSeq([k \in DOMAIN earlier |-> LinkHeight(data, earlier[k], SankeyInnerHeight)])

\* C21: after a sankey of complete items with strictly positive values is
\* rendered, the slice of every edge at its source node and at its target
\* node begins where the slice of the node's previous edge (in input order)
\* ended, the first at the top of the node, and each end of the edge's curve
\* lies at the middle of the edge's slice
C21_SlicesContiguous ==
  (Rendered("sankey") /\ AllComplete /\ AllPositive) =>
    \A i \in DOMAIN data :
      LET path == Elements("path")[i]
          slice == LinkHeight(data, data[i], SankeyInnerHeight)
          sourceTop == NodePosition(data, "source", data[i].source, SankeyInnerHeight).y
          targetTop == NodePosition(data, "target", data[i].target, SankeyInnerHeight).y
      IN /\ NumEq(path.d[2], Add(Add(sourceTop, SlicesBefore("source", i)),
                                  Div(slice, Num(2))))
         /\ NumEq(path.d[8], Add(Add(targetTop, SlicesBefore("target", i)),
                                  Div(slice, Num(2))))

\* ------------------------------------------------------------------------
\* C22: one treemap rectangle per item, in descending order of value
\* ------------------------------------------------------------------------
\* the values never increase along the placed items
NonIncreasing(items) ==
  \A i, j \in DOMAIN items : i < j => Ge(items[i].value, items[j].value)

\* items holds every element of data exactly once
Rearranged(items) ==
  /\ Len(items) = Len(data)
  /\ \E p \in [DOMAIN data -> DOMAIN data] :
       /\ \A i, j \in DOMAIN data : p[i] = p[j] => i = j
       /\ \A i \in DOMAIN data : items[i] = data[p[i]]

\* the rect elements on the surface are those of the layout rects, in order
DrawnFrom(rects) ==
  /\ Len(Elements("rect")) = Len(rects)
  /\ \A k \in DOMAIN rects :
       /\ Elements("rect")[k].x = rects[k].x /\ Elements("rect")[k].y = rects[k].y
       /\ Elements("rect")[k].fill = (k - 1) % PaletteSize

\* C22: after a treemap of named items is rendered, the surface holds one
\* rectangle per item, drawn from a layout whose items are the input items,
\* each once, in an order in which the values never increase; the k-th
\* rectangle of that order has the k-th colour
C22_OncePerItemSorted ==
  (Rendered("treemap") /\ Named) =>
    \E rects \in TreemapLayouts :
      /\ DrawnFrom(rects)
      /\ Rearranged(PlacedItems(rects))
      /\ NonIncreasing(PlacedItems(rects))

\* ------------------------------------------------------------------------
\* C23: the size from which a treemap rectangle is labelled
\* ------------------------------------------------------------------------
\* the number of text elements between the k-th rect element of children
\* and the next rect element
RECURSIVE TextsBehind(_, _)
TextsBehind(children, k) ==
  IF children = <<>> THEN 0
  ELSE IF Head(children).tag = "rect"
       THEN (IF k = 0 THEN 0 ELSE TextsBehind(Tail(children), k - 1))
       ELSE (IF k = 0 THEN 1 ELSE 0) + TextsBehind(Tail(children), k)

TextsAt(k) == TextsBehind(AllChildren(svg), k)

\* the k-th rectangle is drawn with its name and its value
LabelledAt(k) == TextsAt(k) = 2

\* C23 as stated: after a treemap of named items with strictly positive
\* values is rendered, a placed rectangle is followed by its name and value
\* texts exactly when it is at least 60 wide and at least 30 high
C23_LabelledFrom60x30 ==
  (Rendered("treemap") /\ Named /\ AllPositive) =>
    \A rects \in TreemapLayouts : \A k \in DOMAIN rects :
      LabelledAt(k) <=> (Ge(rects[k].width, Num(60)) /\ Ge(rects[k].height, Num(30)))

\* C23 amended: after a treemap of named items with strictly positive values
\* is rendered, a placed rectangle is followed by its name and value texts
\* exactly when it is more than 60 wide and more than 30 high, and by no
\* text otherwise: a rectangle of exactly 60 x 30 has no label
C23_LabelledAbove60x30 ==
  (Rendered("treemap") /\ Named /\ AllPositive) =>
    \A rects \in TreemapLayouts : \A k \in DOMAIN rects :
      /\ LabelledAt(k) <=> (Gt(rects[k].width, Num(60)) /\ Gt(rects[k].height, Num(30)))
      /\ LabelledAt(k) \/ TextsAt(k) = 0

\* one item has been drawn into a rectangle of exactly 60 x 30, without label
C23_Witness ==
  /\ Rendered("treemap") /\ Named /\ AllPositive /\ Len(data) = 1
  /\ TreemapInnerWidth = Num(60) /\ TreemapInnerHeight = Num(30)
  /\ Len(Elements("rect")) = 1 /\ Elements("text") = <<>>

\* ------------------------------------------------------------------------
\* C24: the palette index of a heatmap cell
\* ------------------------------------------------------------------------
AllFinite == \A i \in DOMAIN data : IsFinite(data[i].value)

EdgeOf(k) == data[CompleteEdges(Len(data))[k]]

\* C25 as stated: after a sankey is rendered, the stroke widths of every two
\* curves are in the ratio of the values of their items
C25_WidthProportional ==
  Rendered("sankey") =>
    \A k1, k2 \in DOMAIN Elements("path") :
      NumEq(Mul(Elements("path")[k1].strokeWidth, EdgeOf(k2).value),
            Mul(Elements("path")[k2].strokeWidth, EdgeOf(k1).value))

\* C25 amended: after a sankey is rendered, the stroke widths of every two
\* curves that are both thicker than 1 are in the ratio of the values of
\* their items, no curve is thinner than 1, and a curve whose slice of its
\* source node is at most 1 high has stroke width 1
C25_WidthProportionalAboveOne ==
  Rendered("sankey") =>
    /\ \A k1, k2 \in DOMAIN Elements("path") :
         (Gt(Elements("path")[k1].strokeWidth, Num(1))
          /\ Gt(Elements("path")[k2].strokeWidth, Num(1)))
         => NumEq(Mul(Elements("path")[k1].strokeWidth, EdgeOf(k2).value),
                  Mul(Elements("path")[k2].strokeWidth, EdgeOf(k1).value))
    /\ \A k \in DOMAIN Elements("path") :
         /\ ~Lt(Elements("path")[k].strokeWidth, Num(1))
         /\ Le(LinkHeight(data, EdgeOf(k), SankeyInnerHeight), Num(1))
            => NumEq(Elements("path")[k].strokeWidth, Num(1))

\* a curve of value 0 has been drawn with stroke width 1 beside a thicker
\* curve of a positive value
C25_Witness ==
  /\ Rendered("sankey") /\ Len(Elements("path")) = 2
  /\ EdgeOf(1).value = Num(0) /\ NumEq(Elements("path")[1].strokeWidth, Num(1))
  /\ IsPositive(EdgeOf(2).value) /\ Gt(Elements("path")[2].strokeWidth, Num(1))

\* ------------------------------------------------------------------------
\* C26: the layout leaves its request as it was
\* ------------------------------------------------------------------------
\* C26: once the effect has run, whatever it drew and whether or not it
\* threw, type, data (items and their order), width and height are what they
\* were when the effect began
C26_RequestUnchanged ==
  (~effectPending /\ firstRender # <<>>) => firstRender[1].props = Props

\* a treemap has been drawn from data that is not in descending order: the
\* first rectangle is the last item's, and data still begins with the
\* smaller item
C26_Witness ==
  /\ Rendered("treemap") /\ Named /\ AllPositive /\ Len(data) = 2
  /\ firstRender # <<>>
  /\ Lt(data[1].value, data[2].value)
  /\ \E rects \in TreemapLayouts :
       DrawnFrom(rects) /\ PlacedItems(rects) = <<data[2], data[1]>>

\* ------------------------------------------------------------------------
\* C27: a type without a layout of its own
\* ------------------------------------------------------------------------
\* C27: after data is rendered under a type other than treemap, heatmap,
\* sankey and sunburst, the surface holds one group, which is a group that
\* renderTreemap builds from the same data, width and height
C27_UnknownTypeIsTreemap ==
  (~effectPending /\ Len(data) > 0
   /\ type \notin {"treemap", "heatmap", "sankey", "sunburst"}) =>
    svg \in { <<Appended(g)>> : g \in renderTreemap(data, width, height) }

\* a chord chart of two named items has been drawn as two rectangles
C27_Witness ==
  /\ Rendered("chord") /\ Named /\ ~thrown /\ Len(data) = 2
  /\ Len(Elements("rect")) = 2

\* ------------------------------------------------------------------------
\* C28: sankey items with one end only
\* ------------------------------------------------------------------------
\* the values of the items whose field f is key, added up
ValueAt(f, key) ==
  LET items == SelectSeq(data, LAMBDA d : d[f] = key)
  IN SumSeq([k \in DOMAIN items |-> items[k].value])

\* the values of the items that have a field f, added up
ColumnValue(f) ==
  LET items == SelectSeq(data, LAMBDA d : d[f] # None)
  IN SumSeq([k \in DOMAIN items |-> items[k].value])

\* the rectangle drawn for the k-th node of column f
NodeRect(f, k) ==
  Elements("rect")[IF f = "source" THEN k ELSE Len(NodesOf(data, "source")) + k]

\* the items that have a source or a target but not both
Dangling ==
  { i \in DOMAIN data : (data[i].source = None) # (data[i].target = None) }

\* C28: after a sankey is rendered, there is one curve for every item with
\* both ends and none for an item with one end only, while the rectangle of
\* every node is as high as the share of the inner height that the values of
\* all items naming the node, with or without the other end, have in the
\* values of all items naming any node of its column
C28_DanglingCounted ==
  Rendered("sankey") =>
    /\ Len(Elements("path")) = Len(data) - Cardinality(Dangling)
                                - Cardinality({ i \in DOMAIN data :
                                     data[i].source = None /\ data[i].target = None })
    /\ Len(Elements("rect")) = Len(NodesOf(data, "source")) + Len(NodesOf(data, "target"))
    /\ \A f \in {"source", "target"} : \A k \in DOMAIN NodesOf(data, f) :
         NodeRect(f, k).height
           = Mul(Div(ValueAt(f, NodesOf(data, f)[k]), ColumnValue(f)), SankeyInnerHeight)

\* one item is a complete edge and the other has a source only; one curve is
\* drawn, and the source named by the second item alone has a rectangle of
\* positive height
C28_Witness ==
  /\ Rendered("sankey") /\ Len(data) = 2 /\ Dangling = {2}
  /\ data[2].source \notin {None, data[1].source}
  /\ IsPositive(data[1].value) /\ IsPositive(data[2].value)
  /\ Len(Elements("path")) = 1
  /\ IsPositive(NodeRect("source", 2).height)

\* ------------------------------------------------------------------------
\* C29: the stacking of the nodes of a sankey column
\* ------------------------------------------------------------------------
\* the heights of the rectangles of column f
ColumnHeights(f) == [k \in DOMAIN NodesOf(data, f) |-> NodeRect(f, k).height]

\* the label drawn for the k-th node of column f
NodeLabel(f, k) ==
  Elements("text")[IF f = "source" THEN k ELSE Len(NodesOf(data, "source")) + k].text

\* the first item whose field f is key
FirstNaming(f, key) ==
  CHOOSE i \in DOMAIN data :
    data[i][f] = key /\ \A q \in 1..(i - 1) : data[q][f] # key

\* the column f is stacked: heights add up to the inner height, the nodes
\* are in the order in which the items first name them, the first node is at
\* the top, every next node begins 5 below the bottom of the one before it,
\* and the last node ends at innerHeight + 5 (k - 1)
Stacked(f) ==
  LET k == Len(NodesOf(data, f))
  IN /\ NumEq(SumSeq(ColumnHeights(f)), SankeyInnerHeight)
     /\ \A i, j \in 1..k :
          i < j => FirstNaming(f, NodeLabel(f, i)) < FirstNaming(f, NodeLabel(f, j))
     /\ NumEq(NodeRect(f, 1).y, Num(0))
     /\ \A j \in 1..(k - 1) :
          /\ NumEq(NodeRect(f, j + 1).y,
                   Add(Add(NodeRect(f, j).y, NodeRect(f, j).height), Num(NodeGap)))
          /\ Ge(NodeRect(f, j + 1).y, Add(NodeRect(f, j).y, NodeRect(f, j).height))
     /\ NumEq(Add(NodeRect(f, k).y, NodeRect(f, k).height),
              Add(SankeyInnerHeight, Num(NodeGap * (k - 1))))

\* C29: after a sankey is rendered, in every column that has a node the
\* heights of the rectangles add up to the inner height, the nodes are in
\* first-seen order from the top with a gap of 5 between the bottom of one
\* and the top of the next, none overlapping another, and the bottom of the
\* last of k nodes is at innerHeight + 5 (k - 1)
C29_ColumnStacking ==
  Rendered("sankey") =>
    \A f \in {"source", "target"} : NodesOf(data, f) # <<>> => Stacked(f)

\* ------------------------------------------------------------------------
\* C30: heatmap keys that are falsy
\* ------------------------------------------------------------------------
\* the name of the row of an item: its category, or 'Row', when its row is
\* 0, empty or absent
RowNamed(d) ==
  IF d.row \in {None, NumberKey(0)}
  THEN (IF d.category = None THEN <<"R", "o", "w">> ELSE d.category)
  ELSE KeyToStr(d.row)

\* the name of the column of an item: its name when its col is 0, empty or
\* absent
ColNamed(d) ==
  IF d.col \in {None, NumberKey(0)} THEN d.name ELSE KeyToStr(d.col)

\* the texts of the row labels (left of the grid) at the height of the
\* middle of a cell, and of the column labels (above the grid) at the middle
\* of a cell
RowLabelsAt(rect) ==
  { e.text : e \in { e \in { Elements("text")[k] : k \in DOMAIN Elements("text") } :
                      /\ e.x = Num(-5)
                      /\ e.y = Add(rect.y, Div(Add(rect.height, Num(2)), Num(2))) } }

ColLabelsAt(rect) ==
  { e.text : e \in { e \in { Elements("text")[k] : k \in DOMAIN Elements("text") } :
                      /\ e.y = Num(-10)
                      /\ e.x = Add(rect.x, Div(Add(rect.width, Num(2)), Num(2))) } }

\* C30: after a heatmap of named items is rendered, the cell of every item
\* lies in the row labelled with the item's row, or with its category (or
\* 'Row' when that is empty or absent too) when the row is 0, empty or
\* absent, and in the column labelled with its col, or with its name when
\* the col is 0, empty or absent; two items whose rows are falsy and whose
\* categories differ lie in different rows
C30_FalsyKeysFallBack ==
  (Rendered("heatmap") /\ Named) =>
    /\ Len(Elements("rect")) = Len(data)
    /\ \A i \in DOMAIN data :
         /\ RowLabelsAt(Elements("rect")[i]) = {Ellipsize(RowNamed(data[i]), 10, 8)}
         /\ ColLabelsAt(Elements("rect")[i]) = {Ellipsize(ColNamed(data[i]), 10, 8)}
    /\ \A i, j \in DOMAIN data :
         (/\ data[i].row \in {None, NumberKey(0)}
          /\ data[j].row \in {None, NumberKey(0)}
          /\ data[i].category # data[j].category)
         => Elements("rect")[i].y # Elements("rect")[j].y

\* two items with row 0 and different categories have been drawn in
\* different rows, and an item with col 0 in the column of its name
C30_Witness ==
  /\ Rendered("heatmap") /\ Named /\ Len(data) = 2
  /\ data[1].row = NumberKey(0) /\ data[2].row = NumberKey(0)
  /\ data[1].col = NumberKey(0)
  /\ data[1].category # None /\ data[2].category # None
  /\ data[1].category # data[2].category
  /\ Elements("rect")[1].y # Elements("rect")[2].y
  /\ RowLabelsAt(Elements("rect")[1]) = {data[1].category}
  /\ ColLabelsAt(Elements("rect")[1]) = {Ellipsize(data[1].name, 10, 8)}

====
